---- MODULE Spec2Model ----
(***************************************************************************)
(* A model of wiki-climate (src/main.py): the ingestion loop               *)
(* process_cities, the infobox locator get_weather_box and the normalizer  *)
(* process_city, over a wiki and a document store.                         *)
(*                                                                         *)
(* Texts are TLA+ strings.  A Python float is modelled by an integer       *)
(* number of tenths (every modelled input text has at most one fractional  *)
(* digit, and every stored float is rounded to one decimal).  TLA+ strings *)
(* are ASCII, so U+2212 MINUS SIGN is written "^" and U+2014 EM DASH is    *)
(* written "~" in every text of the model.                                 *)
(***************************************************************************)
EXTENDS Integers, Sequences, FiniteSets, TLC

VARIABLES
    wiki,      \* en_wiki: page title -> list of (template name, field mapping)
    cities,    \* the candidate list handed to process_cities
    store,     \* db.cities, in insertion order
    index,     \* position of the for loop of process_cities (1-based)
    status,    \* "running", "done" (loop finished) or "raised" (exception)
    run,       \* number of the current run of process_cities
    inserts,   \* insert_one calls made by the current run
    runStart,  \* the store when the current run started
    prevEnd,   \* how the previous run ended: "none", "done" or "raised"
    prevFail,  \* index at which the previous run raised (0: it did not)
    last       \* what the last loop iteration did

vars == <<wiki, cities, store, index, status, run, inserts, runStart,
          prevEnd, prevFail, last>>

-----------------------------------------------------------------------------
(* Bounds of the model                                                     *)

MaxCities == 2
MaxRuns == 2

-----------------------------------------------------------------------------
(* Python values                                                           *)

Str(s) == [kind |-> "str", txt |-> s, num |-> 0]
Flt(n) == [kind |-> "float", txt |-> "", num |-> n]
IntV(n) == [kind |-> "int", txt |-> "", num |-> n]

MinusSign == "^"
EmDash == "~"

-----------------------------------------------------------------------------
(* Python str operations                                                   *)

CharAt(s, i) == SubSeq(s, i, i)

StartsAt(s, i, p) ==
    /\ i >= 1
    /\ i + Len(p) - 1 <= Len(s)
    /\ SubSeq(s, i, i + Len(p) - 1) = p

\* p in s
Contains(s, p) ==
    \E i \in 1..(Len(s) - Len(p) + 1) : SubSeq(s, i, i + Len(p) - 1) = p

\* s.find(p) + 1: the first position of p in s, 0 when there is none
IndexOf(s, p) ==
    IF Contains(s, p)
    THEN CHOOSE i \in 1..(Len(s) - Len(p) + 1) :
            /\ StartsAt(s, i, p)
            /\ \A j \in 1..(i - 1) : ~StartsAt(s, j, p)
    ELSE 0

\* s.rfind(p) + 1
LastIndexOf(s, p) ==
    IF Contains(s, p)
    THEN CHOOSE i \in 1..(Len(s) - Len(p) + 1) :
            /\ StartsAt(s, i, p)
            /\ \A j \in (i + 1)..(Len(s) - Len(p) + 1) : ~StartsAt(s, j, p)
    ELSE 0

RECURSIVE Replace(_, _, _)
\* s.replace(old, new): every occurrence, left to right
ReplaceAt(s, old, new, i) ==
    IF i = 0 THEN s
    ELSE SubSeq(s, 1, i - 1) \o new
         \o Replace(SubSeq(s, i + Len(old), Len(s)), old, new)

Replace(s, old, new) == ReplaceAt(s, old, new, IndexOf(s, old))

RECURSIVE LStrip(_)
LStrip(s) ==
    IF Len(s) > 0 /\ CharAt(s, 1) = " " THEN LStrip(SubSeq(s, 2, Len(s))) ELSE s

RECURSIVE RStrip(_)
RStrip(s) ==
    IF Len(s) > 0 /\ CharAt(s, Len(s)) = " "
    THEN RStrip(SubSeq(s, 1, Len(s) - 1)) ELSE s

\* s.strip()
Strip(s) == RStrip(LStrip(s))

Digits == "0123456789"

IsDigit(c) == \E d \in 1..10 : CharAt(Digits, d) = c

DigitVal(c) == (CHOOSE d \in 1..10 : CharAt(Digits, d) = c) - 1

AllDigits(s) == \A i \in 1..Len(s) : IsDigit(CharAt(s, i))

RECURSIVE DigitsVal(_)
DigitsVal(s) ==
    IF Len(s) = 0 THEN 0
    ELSE 10 * DigitsVal(SubSeq(s, 1, Len(s) - 1)) + DigitVal(CharAt(s, Len(s)))

\* float(s), in tenths: surrounding blanks, an optional sign, digits with an
\* optional point.  ok = FALSE is ValueError.  (Exponents, inf, nan and
\* underscores are outside the modelled texts, as are texts with more than
\* one fractional digit, whose further digits are not kept.)
\* ParseDigits: ip holds the digits before the point, fp those after it
ParseDigits(neg, ip, fp) ==
    IF AllDigits(ip) /\ AllDigits(fp) /\ Len(ip) + Len(fp) > 0
    THEN [ok |-> TRUE,
          num |-> (IF neg THEN -1 ELSE 1)
                  * (10 * DigitsVal(ip)
                     + (IF Len(fp) = 0 THEN 0 ELSE DigitVal(CharAt(fp, 1))))]
    ELSE [ok |-> FALSE, num |-> 0]

ParseSplit(neg, body, dot) ==
    IF dot = 0 THEN ParseDigits(neg, body, "")
    ELSE ParseDigits(neg, SubSeq(body, 1, dot - 1), SubSeq(body, dot + 1, Len(body)))

ParseSigned(t, signed) ==
    ParseSplit(signed /\ CharAt(t, 1) = "-",
               IF signed THEN SubSeq(t, 2, Len(t)) ELSE t,
               IndexOf(IF signed THEN SubSeq(t, 2, Len(t)) ELSE t, "."))

ParseStripped(t) == ParseSigned(t, Len(t) > 0 /\ CharAt(t, 1) \in {"-", "+"})

ParseFloat(s) == ParseStripped(Strip(s))

\* int(s)
ParseIntStripped(t) ==
    IF Len(t) > 0 /\ AllDigits(t) THEN [ok |-> TRUE, num |-> DigitsVal(t)]
    ELSE [ok |-> FALSE, num |-> 0]

ParseInt(s) == ParseIntStripped(Strip(s))

-----------------------------------------------------------------------------
(* Arithmetic on tenths                                                    *)

\* the integer nearest to a / b (b > 0), a tie going to the even one
RoundDiv(a, b) ==
    LET q == a \div b
        r == a % b
    IN  IF 2 * r < b THEN q
        ELSE IF 2 * r > b THEN q + 1
        ELSE IF q % 2 = 0 THEN q ELSE q + 1

RECURSIVE SumSeq(_)
SumSeq(xs) == IF Len(xs) = 0 THEN 0 ELSE Head(xs) + SumSeq(Tail(xs))

MaxSeq(xs) == CHOOSE x \in {xs[i] : i \in 1..Len(xs)} :
                 \A i \in 1..Len(xs) : xs[i] <= x

MinSeq(xs) == CHOOSE x \in {xs[i] : i \in 1..Len(xs)} :
                 \A i \in 1..Len(xs) : x <= xs[i]

\* round(month_avg(xs), 1): sum(xs) / 12
month_avg(xs) == RoundDiv(SumSeq(xs), 12)

\* a conversion that multiplies by 1.8 where f2c divides
f2cTimes(f) == RoundDiv((f - 320) * 18, 10)

\* round(f2c(f), 1): (f - 32) / 1.8, in tenths (f - 320) * 10 / 18
f2c(f) == RoundDiv((f - 320) * 10, 18)

\* round(i2mm(i), 1): i * 25.4, in tenths i * 254 / 10
i2mm(i) == RoundDiv(i * 254, 10)

\* round(pstdev(xs), 1): sqrt(sum((x - mean)^2) / n), which is
\* sqrt(n * sum(x^2) - sum(x)^2) / n; r is its nearest integer when
\* (2r - 1)^2 * n^2 <= 4 * (n * sum(x^2) - sum(x)^2) < (2r + 1)^2 * n^2
pstdev(xs) ==
    LET n == Len(xs)
        sq == [i \in 1..n |-> xs[i] * xs[i]]
        v4 == 4 * (n * SumSeq(sq) - SumSeq(xs) * SumSeq(xs))
    IN  CHOOSE r \in 0..(MaxSeq(xs) - MinSeq(xs)) :
            /\ (r = 0 \/ (2 * r - 1) * (2 * r - 1) * n * n <= v4)
            /\ v4 < (2 * r + 1) * (2 * r + 1) * n * n

-----------------------------------------------------------------------------
(* Python dict operations                                                  *)

EmptyDict == [k \in {} |-> Str("")]

Has(box, k) == k \in DOMAIN box

\* box[k] = v
Put(box, k, v) == [x \in DOMAIN box \cup {k} |-> IF x = k THEN v ELSE box[x]]

\* del box[k] for every k of ks
Del(box, ks) == [x \in DOMAIN box \ ks |-> box[x]]

\* box.update(other)
Update(box, other) ==
    [x \in DOMAIN box \cup DOMAIN other |->
        IF x \in DOMAIN other THEN other[x] ELSE box[x]]

\* the outcome of a piece of code working on a dict: exc = "" when it
\* completed, the exception's name when it raised
Ok(box) == [exc |-> "", box |-> box]
Raised(e) == [exc |-> e, box |-> EmptyDict]

-----------------------------------------------------------------------------
(* The tables of process_city                                              *)

MONTHS == <<"Jan", "Feb", "Mar", "Apr", "May", "Jun",
            "Jul", "Aug", "Sep", "Oct", "Nov", "Dec">>

NumMonths == 12

PARAMS == <<"high C", "high F", "mean C", "mean F", "low C", "low F",
            "humidity", "sun", "precipitation days", "precipitation mm",
            "precipitation inch",
            "record high C", "record high F", "record low C", "record low F">>

IMPERIAL == <<<<"high F", "f2c">>, <<"mean F", "f2c">>, <<"low F", "f2c">>,
              <<"record high F", "f2c">>, <<"record low F", "f2c">>,
              <<"precipitation inch", "i2mm">>>>

AGGREGATES == <<<<"high C", "month_avg">>, <<"mean C", "month_avg">>,
                <<"low C", "month_avg">>, <<"humidity", "month_avg">>,
                <<"sun", "sum">>, <<"precipitation days", "sum">>,
                <<"precipitation mm", "sum">>,
                <<"record high C", "max">>, <<"record low C", "min">>>>

STDEVS == <<"mean C", "humidity", "sun", "precipitation days", "precipitation mm">>

\* '{} {}'.format(m, param)
Key(m, param) == m \o " " \o param

MonthKeys(param) == {Key(MONTHS[i], param) : i \in 1..NumMonths}

\* 'year {}'.format(param) and 'year {} stdev'.format(param)
YearKey(param) == "year " \o param
StdevKey(param) == "year " \o param \o " stdev"

-----------------------------------------------------------------------------
(* process_city, lines 125-136: month texts to floats                      *)

\* the replace chain of lines 130-134
Normalise(s) ==
    Replace(Replace(Replace(Replace(s, MinusSign, "-"), "&minus;", "-"),
                    "trace", "0"), EmDash, "-")

\* lines 128-136 for one key: a blank text is left alone, a text float()
\* rejects is left alone (ValueError is caught and printed)
CoerceParsed(v, p) == IF p.ok THEN Flt(p.num) ELSE v

Coerce(v) ==
    IF Strip(v.txt) = "" THEN v ELSE CoerceParsed(v, ParseFloat(Normalise(v.txt)))

\* one turn of the outer loop.  A key holding month + ' ' whose value is no
\* longer a str (an earlier month's turn made it a float) has no strip():
\* AttributeError, which nothing catches
CoerceMonth(box, month) ==
    LET hits == {key \in DOMAIN box : Contains(key, month \o " ")} IN
    IF \E key \in hits : box[key].kind # "str"
    THEN Raised("AttributeError")
    ELSE Ok([key \in DOMAIN box |->
                IF key \in hits THEN Coerce(box[key]) ELSE box[key]])

RECURSIVE CoerceFrom(_, _)
CoerceFrom(r, i) ==
    IF r.exc # "" \/ i > NumMonths THEN r
    ELSE CoerceFrom(CoerceMonth(r.box, MONTHS[i]), i + 1)

StageA(box) == CoerceFrom(Ok(box), 1)

-----------------------------------------------------------------------------
(* process_city, lines 138-154: all twelve months or none                  *)

\* the list of line 142, one boolean for every month whatever the box holds
MonthsListed(box, param) ==
    [i \in 1..NumMonths |-> Has(box, Key(MONTHS[i], param))]

\* lines 139-143
CheckMonths(box) ==
    IF \E j \in 1..Len(PARAMS) :
            Len(MonthsListed(box, PARAMS[j])) \notin {0, NumMonths}
    THEN Raised("Exception")
    ELSE Ok(box)

\* type(v) == float
IsFloat(v) == v.kind = "float"

RECURSIVE AllAreFloats(_, _, _)
\* line 151: all() stops at the first month that is no float, and the
\* subscript raises KeyError at the first month it does not find
AllAreFloats(box, param, i) ==
    IF i > NumMonths THEN "True"
    ELSE IF ~Has(box, Key(MONTHS[i], param)) THEN "KeyError"
    ELSE IF ~IsFloat(box[Key(MONTHS[i], param)]) THEN "False"
    ELSE AllAreFloats(box, param, i + 1)

\* line 149: the guard every later stage uses for "the parameter is there"
HasParam(box, param) == Has(box, Key(MONTHS[1], param))

\* lines 149-154 for one parameter
\* a removal that raises where lines 152-154 delete the twelve fields
RemoveCheckedStrict(box, param, a) ==
    IF a = "True" THEN Ok(box) ELSE Raised("Exception")

RemoveChecked(box, param, a) ==
    IF a = "KeyError" THEN Raised("KeyError")
    ELSE IF a = "True" THEN Ok(box)
    ELSE IF MonthKeys(param) \subseteq DOMAIN box
         THEN Ok(Del(box, MonthKeys(param)))
         ELSE Raised("KeyError")   \* del of a key that is not there

RemoveNonFloats(box, param) ==
    IF ~HasParam(box, param) THEN Ok(box)
    ELSE RemoveChecked(box, param, AllAreFloats(box, param, 1))

RECURSIVE RemoveFrom(_, _)
RemoveFrom(r, j) ==
    IF r.exc # "" \/ j > Len(PARAMS) THEN r
    ELSE RemoveFrom(RemoveNonFloats(r.box, PARAMS[j]), j + 1)

StageB(box) == RemoveFrom(CheckMonths(box), 1)

-----------------------------------------------------------------------------
(* process_city, lines 156-179: conversion, aggregation, deviation         *)

\* the twelve values of a parameter, lines 162, 171 and 178; a missing key
\* is KeyError, arithmetic on a str is TypeError
Present(box, param) == MonthKeys(param) \subseteq DOMAIN box
Numeric(box, param) ==
    \A i \in 1..NumMonths : box[Key(MONTHS[i], param)].kind \in {"float", "int"}
Values(box, param) == [i \in 1..NumMonths |-> box[Key(MONTHS[i], param)].num]

Guarded(box, param, result) ==
    IF ~HasParam(box, param) THEN Ok(box)
    ELSE IF ~Present(box, param) THEN Raised("KeyError")
    ELSE IF ~Numeric(box, param) THEN Raised("TypeError")
    ELSE Ok(result)

ApplyConvert(fn, x) == IF fn = "f2c" THEN f2c(x) ELSE i2mm(x)

\* lines 159-163 for one parameter
ConvertParam(box, param, fn) ==
    Guarded(box, param,
        [k \in DOMAIN box |->
            IF k \in MonthKeys(param) THEN Flt(ApplyConvert(fn, box[k].num))
            ELSE box[k]])

ApplyAggregate(fn, xs) ==
    CASE fn = "month_avg" -> month_avg(xs)
      [] fn = "sum" -> SumSeq(xs)
      [] fn = "max" -> MaxSeq(xs)
      [] fn = "min" -> MinSeq(xs)

\* an aggregation over whichever months are there, a missing one counting 0
AggregateParamLoose(box, param, fn) ==
    IF \A k \in MonthKeys(param) : k \notin DOMAIN box \/ box[k].kind # "float"
    THEN Ok(box)
    ELSE Ok(Put(box, YearKey(param),
                Flt(ApplyAggregate(fn,
                    [i \in 1..NumMonths |->
                        IF /\ Key(MONTHS[i], param) \in DOMAIN box
                           /\ box[Key(MONTHS[i], param)].kind = "float"
                        THEN box[Key(MONTHS[i], param)].num ELSE 0]))))

\* lines 169-172 for one parameter
AggregateParam(box, param, fn) ==
    Guarded(box, param,
        Put(box, YearKey(param), Flt(ApplyAggregate(fn, Values(box, param)))))

\* lines 176-179 for one parameter
StdevParam(box, param) ==
    Guarded(box, param,
        Put(box, StdevKey(param), Flt(pstdev(Values(box, param)))))

RECURSIVE ConvertFrom(_, _)
ConvertFrom(r, j) ==
    IF r.exc # "" \/ j > Len(IMPERIAL) THEN r
    ELSE ConvertFrom(ConvertParam(r.box, IMPERIAL[j][1], IMPERIAL[j][2]), j + 1)

RECURSIVE AggregateFrom(_, _)
AggregateFrom(r, j) ==
    IF r.exc # "" \/ j > Len(AGGREGATES) THEN r
    ELSE AggregateFrom(AggregateParam(r.box, AGGREGATES[j][1], AGGREGATES[j][2]),
                       j + 1)

RECURSIVE StdevFrom(_, _)
StdevFrom(r, j) ==
    IF r.exc # "" \/ j > Len(STDEVS) THEN r
    ELSE StdevFrom(StdevParam(r.box, STDEVS[j]), j + 1)

StageC(box) == ConvertFrom(Ok(box), 1)
StageD(box) == AggregateFrom(Ok(box), 1)
StageE(box) == StdevFrom(Ok(box), 1)

\* lines 125-179: the stages in order, an exception ending them
Then(r, Stage(_)) == IF r.exc # "" THEN r ELSE Stage(r.box)

Normalize(box) == Then(Then(Then(Then(StageA(box), StageB), StageC), StageD), StageE)

-----------------------------------------------------------------------------
(* get_weather_box                                                         *)

\* re.search(r'wiki/(.*)', url).group(1); ok = FALSE when nothing matches
\* (group of None: AttributeError)
TitleAt(url, i) ==
    IF i = 0 THEN [ok |-> FALSE, txt |-> ""]
    ELSE [ok |-> TRUE, txt |-> SubSeq(url, i + 5, Len(url))]

ArticleTitle(url) == TitleAt(url, IndexOf(url, "wiki/"))

\* a page that is taken to exist whatever its pageid
PageExistsAlways(wk, title) == TRUE

\* page.pageid != 0
PageExists(wk, title) == title \in DOMAIN wk

\* page.raw_extracted_templates: (name, fields) pairs in page order
Templates(wk, title) == IF title \in DOMAIN wk THEN wk[title] ELSE <<>>

\* next((t[1] for t in templates if t[0] in ['Weather box']), None):
\* the position of the first such template, 0 for None
First(hits) == IF hits = {} THEN 0 ELSE CHOOSE i \in hits : \A j \in hits : i <= j

FindWeatherBox(templates) ==
    First({i \in 1..Len(templates) : templates[i][1] \in {"Weather box"}})

\* next((t[0] for t in templates if 'weatherbox' in t[0]), None)
FindWeatherTemplate(templates) ==
    First({i \in 1..Len(templates) : Contains(templates[i][1], "weatherbox")})

\* 'Template: {}'.format(weather_template)
TemplateTitle(name) == "Template: " \o name

Located(box, pages) == [exc |-> "", found |-> TRUE, box |-> box, resolved |-> pages]
Absent(pages) == [exc |-> "", found |-> FALSE, box |-> EmptyDict, resolved |-> pages]
Broken(e, pages) == [exc |-> e, found |-> FALSE, box |-> EmptyDict, resolved |-> pages]

\* lines 92-96: the template page's own templates
FromTemplate(pages, shared, inner) ==
    IF inner = 0 THEN Absent(pages) ELSE Located(shared[inner][2], pages)

\* lines 88-91
FollowTemplate(wk, title, ttitle) ==
    IF ~PageExists(wk, ttitle) THEN Broken("Exception", <<title, ttitle>>)
    ELSE FromTemplate(<<title, ttitle>>, Templates(wk, ttitle),
                      FindWeatherBox(Templates(wk, ttitle)))

\* a locator that follows the template reference before it looks for the
\* article's own weather box
FromArticleTemplateFirst(wk, title, own, direct, ref) ==
    IF ref # 0 THEN FollowTemplate(wk, title, TemplateTitle(own[ref][1]))
    ELSE IF direct # 0 THEN Located(own[direct][2], <<title>>)
    ELSE Absent(<<title>>)

\* lines 81-87
FromArticle(wk, title, own, direct, ref) ==
    IF direct # 0 THEN Located(own[direct][2], <<title>>)
    ELSE IF ref = 0 THEN Absent(<<title>>)
    ELSE FollowTemplate(wk, title, TemplateTitle(own[ref][1]))

\* lines 77-80
FromTitle(wk, title) ==
    IF ~title.ok THEN Broken("AttributeError", <<>>)
    ELSE IF ~PageExists(wk, title.txt) THEN Broken("Exception", <<title.txt>>)
    ELSE FromArticle(wk, title.txt, Templates(wk, title.txt),
                     FindWeatherBox(Templates(wk, title.txt)),
                     FindWeatherTemplate(Templates(wk, title.txt)))

\* lines 76-97.  resolved lists the titles a Page was made for, in order
GetWeatherBox(wk, city) == FromTitle(wk, ArticleTitle(city.article))

-----------------------------------------------------------------------------
(* process_city                                                            *)

\* re.search(r'Point\((.*)\s', gps).group(1): from the first 'Point(' to the
\* last blank after it (.* is greedy)
PointFirstAt(gps, i, j) ==
    IF i = 0 \/ j < i + 6 THEN [ok |-> FALSE, txt |-> ""]
    ELSE [ok |-> TRUE, txt |-> SubSeq(gps, i + 6, j - 1)]

PointFirst(gps) == PointFirstAt(gps, IndexOf(gps, "Point("), LastIndexOf(gps, " "))

\* re.search(r'\s(.*)\)', gps).group(1): from the first blank to the last ')'
PointSecondAt(gps, i, j) ==
    IF i = 0 \/ j <= i THEN [ok |-> FALSE, txt |-> ""]
    ELSE [ok |-> TRUE, txt |-> SubSeq(gps, i + 1, j - 1)]

PointSecond(gps) == PointSecondAt(gps, IndexOf(gps, " "), LastIndexOf(gps, ")"))

\* the dict of lines 111-116, its values evaluated in order: int() and
\* float() raise ValueError, group(1) of a search that matched nothing
\* raises AttributeError
BasicFields(city, population, first, lat, second, lon) ==
    IF ~population.ok THEN Raised("ValueError")
    ELSE IF ~first.ok THEN Raised("AttributeError")
    ELSE IF ~lat.ok THEN Raised("ValueError")
    ELSE IF ~second.ok THEN Raised("AttributeError")
    ELSE IF ~lon.ok THEN Raised("ValueError")
    ELSE Ok(("name" :> Str(city.cityLabel))
            @@ ("population" :> IntV(population.num))
            @@ ("country" :> Str(city.countryLabel))
            @@ ("city_wd" :> Str(city.city))
            @@ ("gps_lat" :> Flt(lat.num))
            @@ ("gps_lon" :> Flt(lon.num)))

BasicMatched(city, first, second) ==
    BasicFields(city, ParseInt(city.population),
                first, ParseFloat(first.txt), second, ParseFloat(second.txt))

\* lines 110-116
BasicBox(city) == BasicMatched(city, PointFirst(city.gps), PointSecond(city.gps))

\* what one call did: the exception it raised (exc), the documents it handed
\* to db.cities.insert_one (docs), and what get_weather_box answered
Outcome(exc, docs, loc) == [exc |-> exc, docs |-> docs, loc |-> loc]

NotLocated == Absent(<<>>)

\* lines 124-180
InsertWeather(loc, done) ==
    IF done.exc # "" THEN Outcome(done.exc, <<>>, loc)
    ELSE Outcome("", <<done.box>>, loc)

\* a process_city that returns without an insert when there is no weather box
InsertLocatedSkipping(basic, loc) ==
    IF loc.exc # "" THEN Outcome(loc.exc, <<>>, loc)
    ELSE IF ~loc.found THEN Outcome("", <<>>, loc)
    ELSE InsertWeather(loc, Normalize(Update(loc.box, basic.box)))

\* lines 118-122
InsertLocated(basic, loc) ==
    IF loc.exc # "" THEN Outcome(loc.exc, <<>>, loc)
    ELSE IF ~loc.found THEN Outcome("", <<basic.box>>, loc)
    ELSE InsertWeather(loc, Normalize(Update(loc.box, basic.box)))

\* lines 109-118
InsertBasic(wk, city, basic) ==
    IF basic.exc # "" THEN Outcome(basic.exc, <<>>, NotLocated)
    ELSE InsertLocated(basic, GetWeatherBox(wk, city))

\* lines 109-180
ProcessCity(wk, city) == InsertBasic(wk, city, BasicBox(city))

-----------------------------------------------------------------------------
(* process_cities                                                          *)

\* a lookup that queries the name field with the external id
InStoreByName(st, city) ==
    \E i \in 1..Len(st) : Has(st[i], "name") /\ st[i]["name"] = Str(city.city)

\* a lookup that compares the collection's first document only
InStoreFirst(st, city) ==
    Len(st) > 0 /\ Has(st[1], "city_wd") /\ st[1]["city_wd"] = Str(city.city)

\* db.cities.find_one({'city_wd': city['city']['value']})
InStore(st, city) ==
    \E i \in 1..Len(st) : Has(st[i], "city_wd") /\ st[i]["city_wd"] = Str(city.city)

-----------------------------------------------------------------------------
(* Inputs: candidates as get_cities returns them, infoboxes, wikis         *)

Oslo == [city |-> "http://www.wikidata.org/entity/Q585", cityLabel |-> "Oslo",
         population |-> "634293", countryLabel |-> "Norway",
         article |-> "https://en.wikipedia.org/wiki/Oslo",
         gps |-> "Point(10.7 59.9)"]

Lima == [city |-> "http://www.wikidata.org/entity/Q2868", cityLabel |-> "Lima",
         population |-> "8852000", countryLabel |-> "Peru",
         article |-> "https://en.wikipedia.org/wiki/Lima",
         gps |-> "Point(-77.0 -12.1)"]

\* the query returns one row per population statement: the same city twice
OsloAgain == [Oslo EXCEPT !.population = "580000"]

Candidates == {Oslo, Lima, OsloAgain}

\* the <lon> and <lat> components of a candidate's point text, in tenths
PointLon(city) == IF city.cityLabel = "Oslo" THEN 107 ELSE -770
PointLat(city) == IF city.cityLabel = "Oslo" THEN 599 ELSE -121

CityLists == UNION {[1..n -> Candidates] : n \in 1..MaxCities}

\* month texts an infobox holds, and the number each stands for (in tenths)
MonthTexts == <<"14.5", "^3.5", "&minus;1", "trace", " 50 ", "~2",
                "86", "99", "-40", "32", "0.5", "+7.">>
MonthTenths == <<145, -35, -10, 0, 500, -20, 860, 990, -400, 320, 5, 70>>

\* texts that are blank, and texts float() rejects
BlankTexts == {"", "  "}
BadTexts == {"n/a", "trace amounts"}

\* the months an infobox is damaged at
ShapeMonths == {1, 2, 12}

MonthOf(k, param) == CHOOSE i \in 1..NumMonths : Key(MONTHS[i], param) = k

FullMonths(param) ==
    [k \in MonthKeys(param) |-> Str(MonthTexts[MonthOf(k, param)])]

\* all twelve months, twelve months less one key, or one month's text replaced
Shapes ==
    {[kind |-> "full", month |-> 0, txt |-> ""]}
    \cup {[kind |-> "drop", month |-> i, txt |-> ""] : i \in ShapeMonths}
    \cup {[kind |-> "text", month |-> i, txt |-> t] :
            i \in ShapeMonths, t \in BlankTexts \cup BadTexts}

ParamBox(param, shape) ==
    CASE shape.kind = "full" -> FullMonths(param)
      [] shape.kind = "drop" ->
            Del(FullMonths(param), {Key(MONTHS[shape.month], param)})
      [] shape.kind = "text" ->
            Put(FullMonths(param), Key(MONTHS[shape.month], param), Str(shape.txt))

Companion(param) == IF param = "sun" THEN "humidity" ELSE "sun"

ExtraKinds == {"bare", "identity", "year", "companion", "twoMonth"}

\* what else the infobox holds
ExtraFields(param, e) ==
    CASE e = "bare" -> EmptyDict
      [] e = "identity" ->
            ("location" :> Str("Blindern")) @@ ("name" :> Str("Oslo (Blindern)"))
            @@ ("gps_lat" :> Str("0"))
      [] e = "year" ->
            (YearKey(param) :> Str("9.9")) @@ (StdevKey(param) :> Str("1.1"))
      [] e = "companion" -> FullMonths(Companion(param))
      [] e = "twoMonth" -> ("Jan Feb note" :> Str("1"))

Params == {PARAMS[j] : j \in 1..Len(PARAMS)}

\* the shapes that are combined with every kind of extra field
MainShapes ==
    {[kind |-> "full", month |-> 0, txt |-> ""],
     [kind |-> "drop", month |-> 1, txt |-> ""],
     [kind |-> "text", month |-> 12, txt |-> "n/a"]}

Boxes ==
    {EmptyDict, ExtraFields("high C", "year")}
    \cup {ParamBox(param, shape) : param \in Params, shape \in Shapes}
    \cup {Update(ParamBox(param, shape), ExtraFields(param, e)) :
            param \in Params, shape \in MainShapes, e \in ExtraKinds}

SmallBox == FullMonths("sun")

NoFields == EmptyDict
Infobox == <<"Infobox settlement", ("name" :> Str("x"))>>
WeatherBox(b) == <<"Weather box", b>>
RefName(a) == a \o " weatherbox"
Ref(a) == <<RefName(a), NoFields>>
NoPages == [t \in {} |-> <<>>]

\* the pages around one article: how its weather box is (not) to be found
Direct(a, b) == a :> <<Infobox, WeatherBox(b)>>
DirectDangling(a, b) == a :> <<Ref(a), WeatherBox(b)>>
Via(a, b) == (a :> <<Infobox, Ref(a)>>)
              @@ (TemplateTitle(RefName(a)) :> <<WeatherBox(b)>>)
Bare(a) == a :> <<Infobox>>
Dangling(a) == a :> <<Infobox, Ref(a)>>
TemplateNoBox(a) == (a :> <<Ref(a)>>)
                    @@ (TemplateTitle(RefName(a)) :> <<<<"Documentation", NoFields>>>>)
Nested(a, b) == (a :> <<Ref(a)>>)
                @@ (TemplateTitle(RefName(a)) :> <<Ref(a \o " 2")>>)
                @@ (TemplateTitle(RefName(a \o " 2")) :> <<WeatherBox(b)>>)
TwoRefs(a, b) == (a :> <<Ref(a \o " old"), Ref(a)>>)
                 @@ (TemplateTitle(RefName(a)) :> <<WeatherBox(b)>>)
LowerCase(a, b) == a :> <<<<"weather box", b>>>>

\* every way of (not) finding the weather box
Setups(a, b) ==
    {NoPages, Bare(a), Dangling(a), TemplateNoBox(a), Nested(a, b), TwoRefs(a, b),
     LowerCase(a, b), Direct(a, b), DirectDangling(a, b), Via(a, b)}

FewSetups(a, b) == {NoPages, Bare(a), Direct(a, b)}

\* stores an earlier run can have left
InitialStores == {<<>>, <<BasicBox(Lima).box>>}

-----------------------------------------------------------------------------
(* The state machine                                                       *)

NoStep == [kind |-> "none", exc |-> "", loc |-> NotLocated, before |-> <<>>]

Start(cs, wk, st) ==
    /\ cities = cs
    /\ wiki = wk
    /\ store = st
    /\ index = 1
    /\ status = "running"
    /\ run = 1
    /\ inserts = 0
    /\ runStart = st
    /\ prevEnd = "none"
    /\ prevFail = 0
    /\ last = NoStep

\* one candidate and any infobox on its article
InitBoxes == \E b \in Boxes : Start(<<Oslo>>, Direct("Oslo", b), <<>>)

\* one candidate and any way of locating an infobox
InitLocate ==
    \E b \in {SmallBox, ParamBox("mean C", [kind |-> "drop", month |-> 2, txt |-> ""])} :
        \E wk \in Setups("Oslo", b) : Start(<<Oslo>>, wk, <<>>)

\* several candidates
InitMany ==
    \E cs \in CityLists, st \in InitialStores :
        \E s1 \in FewSetups("Oslo", SmallBox) \cup {Dangling("Oslo")} :
            \E s2 \in FewSetups("Lima", SmallBox) :
                Start(cs, s1 @@ s2, st)

Init == InitBoxes \/ InitLocate \/ InitMany

Reached == status = "running" /\ index <= Len(cities)

\* lines 190-192: the candidate is in the store
Skip ==
    /\ Reached
    /\ InStore(store, cities[index])
    /\ index' = index + 1
    /\ last' = [kind |-> "skip", exc |-> "", loc |-> NotLocated, before |-> store]
    /\ UNCHANGED <<wiki, cities, store, status, run, inserts, runStart,
                   prevEnd, prevFail>>

\* lines 193-194, process_city returning: its insert_one calls are made
\* process_city has run: its insert_one calls are made
Processed(r, kind) ==
    /\ store' = store \o r.docs
    /\ inserts' = inserts + Len(r.docs)
    /\ last' = [kind |-> kind, exc |-> r.exc, loc |-> r.loc, before |-> store]

Returned(r) == r.exc = "" /\ Processed(r, "insert")

Threw(r) == r.exc # "" /\ Processed(r, "raise")

Insert ==
    /\ Reached
    /\ ~InStore(store, cities[index])
    /\ Returned(ProcessCity(wiki, cities[index]))
    /\ index' = index + 1
    /\ UNCHANGED <<wiki, cities, status, run, runStart, prevEnd, prevFail>>

\* lines 193-194, process_city raising: nothing catches, the run ends
Raise ==
    /\ Reached
    /\ ~InStore(store, cities[index])
    /\ Threw(ProcessCity(wiki, cities[index]))
    /\ status' = "raised"
    /\ UNCHANGED <<wiki, cities, index, run, runStart, prevEnd, prevFail>>

\* line 189: the list is exhausted
Finish ==
    /\ status = "running"
    /\ index > Len(cities)
    /\ status' = "done"
    /\ UNCHANGED <<wiki, cities, store, index, run, inserts, runStart,
                   prevEnd, prevFail, last>>

\* lines 197-201: the program is started again on the same store
Rerun ==
    /\ status \in {"done", "raised"}
    /\ run < MaxRuns
    /\ run' = run + 1
    /\ index' = 1
    /\ status' = "running"
    /\ inserts' = 0
    /\ runStart' = store
    /\ prevEnd' = status
    /\ prevFail' = IF status = "raised" THEN index ELSE 0
    /\ last' = NoStep
    /\ UNCHANGED <<wiki, cities, store>>

Next == Skip \/ Insert \/ Raise \/ Finish \/ Rerun

Spec == Init /\ [][Next]_vars

-----------------------------------------------------------------------------
(* What the properties below speak of                                      *)

IdentityFields == {"name", "population", "country", "city_wd", "gps_lat", "gps_lon"}

\* the last loop iteration called process_city
Called == last.kind \in {"insert", "raise"}

\* the candidate the last loop iteration was about
LastCity == IF last.kind = "raise" THEN cities[index] ELSE cities[index - 1]

\* the last loop iteration inserted a record made from an infobox
FromInfobox == last.kind = "insert" /\ last.loc.found

\* the record the last loop iteration inserted
NewRecord == store[Len(store)]

ExactlyOneInsert ==
    /\ Len(store) = Len(last.before) + 1
    /\ SubSeq(store, 1, Len(last.before)) = last.before

\* a record of st carries the external id
HoldsId(st, id) ==
    \E i \in 1..Len(st) : "city_wd" \in DOMAIN st[i] /\ st[i]["city_wd"].txt = id

AllTwelveFloats(rec, param) ==
    \A k \in MonthKeys(param) : k \in DOMAIN rec /\ rec[k].kind = "float"

NoneOfTwelve(rec, param) == MonthKeys(param) \cap DOMAIN rec = {}

\* the parameter has its Jan field and lacks another month's
JanButNotAll(box, param) ==
    /\ Key("Jan", param) \in DOMAIN box
    /\ ~(MonthKeys(param) \subseteq DOMAIN box)

\* some key of the infobox holds two month tokens
TwoMonthKey(box) ==
    \E k \in DOMAIN box : \E i, j \in 1..NumMonths :
        i # j /\ Contains(k, MONTHS[i] \o " ") /\ Contains(k, MONTHS[j] \o " ")

\* the pages of the wiki, read without get_weather_box
HasWeatherBox(page) == \E i \in 1..Len(page) : page[i][1] = "Weather box"
FirstWeatherBox(page) ==
    page[CHOOSE i \in 1..Len(page) :
            /\ page[i][1] = "Weather box"
            /\ \A j \in 1..(i - 1) : page[j][1] # "Weather box"][2]
HasRef(page) == \E i \in 1..Len(page) : Contains(page[i][1], "weatherbox")
FirstRef(page) ==
    page[CHOOSE i \in 1..Len(page) :
            /\ Contains(page[i][1], "weatherbox")
            /\ \A j \in 1..(i - 1) : ~Contains(page[j][1], "weatherbox")][1]

\* the candidate's article title (the articles of the model are named after
\* the cities)
TitleOf(city) == city.cityLabel
SharedTitle(city) == "Template: " \o FirstRef(wiki[TitleOf(city)])

ArticleMissing(city) == TitleOf(city) \notin DOMAIN wiki
FollowsRef(city) ==
    /\ ~ArticleMissing(city)
    /\ ~HasWeatherBox(wiki[TitleOf(city)])
    /\ HasRef(wiki[TitleOf(city)])
TemplateMissing(city) == FollowsRef(city) /\ SharedTitle(city) \notin DOMAIN wiki

-----------------------------------------------------------------------------
(* C1: in every record inserted from a present infobox, each recognized    *)
(* parameter has all twelve month fields, all floats, or none of them.     *)
(* The code keeps the other eleven when the Jan field is the missing one.  *)
C1_AllTwelveOrNone ==
    FromInfobox =>
        \A param \in Params :
            AllTwelveFloats(NewRecord, param) \/ NoneOfTwelve(NewRecord, param)

(* C2: a candidate whose external id is in the store when it is reached    *)
(* causes no insert, and a run that follows a completed run inserts        *)
(* nothing and leaves the store as it found it.                            *)
C2_RerunInsertsNothing ==
    /\ (last.kind # "none" /\ HoldsId(last.before, LastCity.city))
            => (last.kind = "skip" /\ store = last.before)
    /\ (run > 1 /\ prevEnd = "done") => (inserts = 0 /\ store = runStart)

C2_Witness ==
    /\ run > 1 /\ prevEnd = "done" /\ status = "done"
    /\ last.kind = "skip" /\ Len(store) = 2

(* C3: the store never holds two records with the same external id, and    *)
(* every candidate that is reached, not skipped and not fatal causes       *)
(* exactly one insert (a skipped or fatal one causes none).                *)
C3_OneRecordPerId ==
    /\ \A i, j \in 1..Len(store) :
            i # j => store[i]["city_wd"] # store[j]["city_wd"]
    /\ last.kind = "insert" =>
            /\ ExactlyOneInsert
            /\ NewRecord["city_wd"].txt = LastCity.city
            /\ ~HoldsId(last.before, LastCity.city)
    /\ last.kind \in {"skip", "raise"} => store = last.before

C3_Witness ==
    /\ status = "done" /\ run = 1
    /\ Len(cities) = 2 /\ cities[1].city = cities[2].city
    /\ cities[1] # cities[2]
    /\ Len(runStart) = 1 /\ Len(store) = 2 /\ last.kind = "skip"

(* C4: when the locator reports absent for a candidate that is not in the  *)
(* store, process_city does not raise and inserts exactly one record,      *)
(* whose fields are exactly the six identity fields, and the run goes on.  *)
C4_AbsentInsertsIdentityOnly ==
    (Called /\ last.loc.exc = "" /\ ~last.loc.found) =>
        /\ last.kind = "insert"
        /\ status # "raised"
        /\ ExactlyOneInsert
        /\ DOMAIN NewRecord = IdentityFields
        /\ NewRecord["city_wd"].txt = LastCity.city

C4_Witness ==
    /\ last.kind = "insert" /\ ~last.loc.found
    /\ Len(last.loc.resolved) = 2
    /\ Len(store) = 1 /\ DOMAIN store[1] = IdentityFields

(* C5: a candidate whose article, or whose referenced weatherbox template  *)
(* page, does not exist halts the run at that candidate: nothing is        *)
(* inserted for it, no later candidate is examined, the earlier records    *)
(* stay as they are, and a restart skips exactly the earlier candidates    *)
(* and stops at the same one.                                              *)
C5_BrokenReferenceHalts ==
    /\ (Called /\ (ArticleMissing(LastCity) \/ TemplateMissing(LastCity))) =>
            /\ last.kind = "raise" /\ last.exc = "Exception"
            /\ status = "raised"
            /\ store = last.before
            /\ ~HoldsId(store, cities[index].city)
            /\ \A j \in 1..(index - 1) : HoldsId(store, cities[j].city)
    /\ status = "raised" => ~ENABLED (Skip \/ Insert \/ Raise \/ Finish)
    /\ (run > 1 /\ prevFail > 0) =>
            /\ index <= prevFail
            /\ inserts = 0
            /\ store = runStart
            /\ last.kind \in {"none", "skip", "raise"}

C5_Witness ==
    /\ run > 1 /\ prevFail = 2 /\ index = 2
    /\ status = "raised" /\ last.exc = "Exception"
    /\ ArticleMissing(cities[2])
    /\ Len(store) = 1 /\ DOMAIN store[1] # IdentityFields

\* the infobox of C6: the twelve high F fields and nothing else
OnlyHighF == FromInfobox /\ last.loc.box = FullMonths("high F")

\* c is (f - 32) / 1.8 rounded to one decimal, all in tenths
IsCelsiusOf(c, f) ==
    /\ 18 * c - 10 * (f - 320) <= 9
    /\ 10 * (f - 320) - 18 * c <= 9

HighFConverted ==
    \A i \in 1..NumMonths :
        /\ Key(MONTHS[i], "high F") \in DOMAIN NewRecord
        /\ NewRecord[Key(MONTHS[i], "high F")].kind = "float"
        /\ IsCelsiusOf(NewRecord[Key(MONTHS[i], "high F")].num, MonthTenths[i])

ConvertedAverage ==
    RoundDiv(SumSeq([i \in 1..NumMonths |->
                        NewRecord[Key(MONTHS[i], "high F")].num]), 12)

(* C6, as claimed: from an infobox holding only the twelve parseable       *)
(* high F fields, the record holds them converted to Celsius, and a field  *)
(* 'year high F' with their rounded average, and no 'year high F stdev'.   *)
C6_Original ==
    OnlyHighF =>
        /\ HighFConverted
        /\ "year high F" \in DOMAIN NewRecord
        /\ NewRecord["year high F"] = Flt(ConvertedAverage)
        /\ "year high F stdev" \notin DOMAIN NewRecord

(* C6, amended: from an infobox holding only the twelve parseable high F   *)
(* fields, the record holds the six identity fields and the twelve high F  *)
(* fields converted to Celsius in place, and nothing else: no 'year high   *)
(* F' and no 'year high F stdev'.                                          *)
C6_Amended ==
    OnlyHighF =>
        /\ HighFConverted
        /\ DOMAIN NewRecord = IdentityFields \cup MonthKeys("high F")
        /\ "year high F" \notin DOMAIN NewRecord
        /\ "year high F stdev" \notin DOMAIN NewRecord

C6_Witness ==
    /\ OnlyHighF
    /\ NewRecord["Oct high F"] = Flt(0)
    /\ NewRecord["Sep high F"] = Flt(-400)

\* an infobox the last call worked on, none of whose keys holds two months
PlainInfobox == Called /\ last.loc.found /\ ~TwoMonthKey(last.loc.box)

Completed ==
    /\ last.kind = "insert"
    /\ status # "raised"
    /\ ExactlyOneInsert

YearKeys(param) == {YearKey(param), StdevKey(param)}

\* the record holds the field with the very text the infobox had for it
CarriedOver(k) ==
    /\ k \in DOMAIN last.loc.box
    /\ NewRecord[k] = last.loc.box[k]

(* C8, as claimed: in every inserted record a field 'year <param>' or      *)
(* 'year <param> stdev' is present only if all twelve month fields of the  *)
(* parameter are present and numeric, also when the infobox carries a      *)
(* field of that name itself.                                              *)
C8_Original ==
    FromInfobox =>
        \A param \in Params : \A k \in YearKeys(param) :
            k \in DOMAIN NewRecord => AllTwelveFloats(NewRecord, param)

(* C8, amended: in every inserted record a field 'year <param>' or 'year   *)
(* <param> stdev' is present only if all twelve month fields of the        *)
(* parameter are present and numeric, or the infobox carried a field of    *)
(* that name and the record holds it with its text unchanged.              *)
C8_Amended ==
    FromInfobox =>
        \A param \in Params : \A k \in YearKeys(param) :
            k \in DOMAIN NewRecord =>
                AllTwelveFloats(NewRecord, param) \/ CarriedOver(k)

C8_Witness ==
    /\ FromInfobox
    /\ "year mean C" \in DOMAIN last.loc.box
    /\ NewRecord["year mean C"].kind = "float"
    /\ NewRecord["year mean C stdev"].kind = "float"

(* C9: the inserted record's gps_lat holds the <lat> component of          *)
(* 'Point(<lon> <lat>)', the second number, and gps_lon the <lon>          *)
(* component, the first.  The code stores them the other way round.        *)
C9_LatIsSecondNumber ==
    last.kind = "insert" =>
        /\ NewRecord["gps_lat"] = Flt(PointLat(LastCity))
        /\ NewRecord["gps_lon"] = Flt(PointLon(LastCity))

(* C10: get_weather_box returns the article's own 'Weather box' without    *)
(* resolving any other page; otherwise it follows the first template whose *)
(* name contains 'weatherbox' one level, to 'Template: <name>'; it raises  *)
(* exactly when the article or that template page does not exist, and      *)
(* reports absent in every remaining case.                                 *)
C10_LocatorDecision ==
    Called =>
        LET a == TitleOf(LastCity)
            loc == last.loc
        IN  IF ArticleMissing(LastCity)
            THEN loc.exc = "Exception" /\ loc.resolved = <<a>>
            ELSE IF HasWeatherBox(wiki[a])
            THEN /\ loc.exc = "" /\ loc.found
                 /\ loc.box = FirstWeatherBox(wiki[a])
                 /\ loc.resolved = <<a>>
            ELSE IF ~HasRef(wiki[a])
            THEN loc.exc = "" /\ ~loc.found /\ loc.resolved = <<a>>
            ELSE /\ loc.resolved = <<a, SharedTitle(LastCity)>>
                 /\ IF TemplateMissing(LastCity)
                    THEN loc.exc = "Exception"
                    ELSE IF HasWeatherBox(wiki[SharedTitle(LastCity)])
                    THEN /\ loc.exc = "" /\ loc.found
                         /\ loc.box = FirstWeatherBox(wiki[SharedTitle(LastCity)])
                    ELSE loc.exc = "" /\ ~loc.found

C10_Witness ==
    /\ last.kind = "insert" /\ last.loc.found
    /\ last.loc.resolved = <<"Oslo">>
    /\ HasRef(wiki["Oslo"])
    /\ "Template: " \o FirstRef(wiki["Oslo"]) \notin DOMAIN wiki

=============================================================================
